---- MODULE Spec2Model ----
(***************************************************************************)
(* Model of the schema-evolving CSV ingester of auto-statscan (pull.js).   *)
(*                                                                         *)
(* Strings are sequences of one-character strings, so that the sanitizer   *)
(* and the remap key are computed character by character as the code does. *)
(* The SQLite store is modelled by two views: `committed` (what any other  *)
(* reader of the file sees) and `working` (what the ingester's connection  *)
(* sees inside its transaction).  Row inserts are issued with db.run and   *)
(* never awaited, so they stay in `pending` until the store executes them. *)
(***************************************************************************)
EXTENDS Naturals, Sequences, FiniteSets, TLC

(***************************************************************************)
(* Bounds of the model.                                                    *)
(***************************************************************************)
MaxRows == 1

\* the most lines of a payload given to extractObservationsCSV
MaxLines == 3

\* the most characters of a name given to the sanitizer
MaxLen == 3

(***************************************************************************)
(* Characters and the sanitizer.                                           *)
(***************************************************************************)
Upper == {"A","B","C","D","E","F","G","H","I","J","K","L","M",
          "N","O","P","Q","R","S","T","U","V","W","X","Y","Z"}
Lower == {"a","b","c","d","e","f","g","h","i","j","k","l","m",
          "n","o","p","q","r","s","t","u","v","w","x","y","z"}
Digit == {"0","1","2","3","4","5","6","7","8","9"}

\* the character class [a-zA-Z0-9_] of the replace() calls
SafeChar == Upper \cup Lower \cup Digit \cup {"_"}

\* variant: the class of the pattern also holds the dollar sign
sanitizeTableName_KeepsDollar(name) ==
  [i \in DOMAIN name |-> IF name[i] \in SafeChar \cup {"$"} THEN name[i] ELSE "_"]

\* name.replace(/[^a-zA-Z0-9_]/g, '_')
sanitizeTableName(name) ==
  [i \in DOMAIN name |-> IF name[i] \in SafeChar THEN name[i] ELSE "_"]

\* header.replace(/[^a-zA-Z0-9_]/g, '_') as written inline for column names
sanitizeHeader(h) ==
  [i \in DOMAIN h |-> IF h[i] \in SafeChar THEN h[i] ELSE "_"]

\* the set of values of a sequence
Range(s) == {s[i] : i \in DOMAIN s}

(***************************************************************************)
(* JavaScript values of the dataset list: a string or an array.            *)
(***************************************************************************)
JsString(s) == [type |-> "string", str |-> s, arr |-> <<>>]
JsArray(a) == [type |-> "array", str |-> <<>>, arr |-> a]

RECURSIVE Join(_)
\* Array.prototype.join(','), which String(array) uses
Join(a) ==
  IF a = <<>> THEN <<>>
  ELSE IF Len(a) = 1 THEN a[1]
  ELSE a[1] \o <<",">> \o Join(Tail(a))

\* String(v)
ToJsString(v) == IF v.type = "string" THEN v.str ELSE Join(v.arr)

\* s.includes('://')
IncludesScheme(s) ==
  \E i \in 1..Len(s) : i + 2 <= Len(s) /\ s[i] = ":" /\ s[i+1] = "/" /\ s[i+2] = "/"

\* typeof s === 'string' && s.includes('://')
isRemoteUrl(v) == v.type = "string" /\ IncludesScheme(v.str)

\* the decimal key of array index i (0-based), as Object.entries gives it
IndexKey(i) == <<CHOOSE d \in Digit : d = ToString(i)>>

\* Object.entries(listToGet): [key, value] pairs in order
ObjectEntries(l) ==
  IF l.format = "array"
  THEN [i \in DOMAIN l.items |-> <<IndexKey(i - 1), JsArray(l.items[i])>>]
  ELSE [i \in DOMAIN l.items |-> <<l.items[i][1], JsString(l.items[i][2])>>]

(***************************************************************************)
(* The relational store.  A store maps the names of its tables to          *)
(* [cols, rows, synced]: the column set, the rows in rowid order (a row is *)
(* a function from some of the columns to values; an absent column is      *)
(* NULL) and, as a ghost field that commits and rolls back with the DDL,   *)
(* the union of the sanitized header sets with which the schema            *)
(* synchronizer has returned for the table.                                *)
(***************************************************************************)
EmptyStore == <<>>

Tables(store) == DOMAIN store

ColumnsOf(store, t) == IF t \in DOMAIN store THEN store[t].cols ELSE {}

SyncedOf(store, t) == IF t \in DOMAIN store THEN store[t].synced ELSE {}

HasDuplicates(s) == \E i, j \in DOMAIN s : i < j /\ s[i] = s[j]

\* variant: a column named twice is created once
CreateTableIfNotExists_Dedup(store, t, columns) ==
  IF t \in DOMAIN store THEN [ok |-> TRUE, store |-> store]
  ELSE [ok |-> TRUE,
        store |-> [u \in DOMAIN store \cup {t} |->
                     IF u = t THEN [cols |-> Range(columns), rows |-> <<>>, synced |-> {}]
                     ELSE store[u]]]

\* CREATE TABLE IF NOT EXISTS "t" ("c1" TEXT, ...): a no-op on an existing
\* table (the column list is not even checked then); on a new table SQLite
\* rejects a column list that names a column twice
CreateTableIfNotExists(store, t, columns) ==
  IF t \in DOMAIN store THEN [ok |-> TRUE, store |-> store]
  ELSE IF HasDuplicates(columns) THEN [ok |-> FALSE, store |-> store]
  ELSE [ok |-> TRUE,
        store |-> [u \in DOMAIN store \cup {t} |->
                     IF u = t THEN [cols |-> Range(columns), rows |-> <<>>, synced |-> {}]
                     ELSE store[u]]]

\* PRAGMA table_info("t") mapped to the set of column names
getExistingColumns(store, t) == ColumnsOf(store, t)

\* variant: the ALTER statement is issued but adds nothing
AlterAddColumn_NoOp(store, t, col) ==
  store

\* ALTER TABLE "t" ADD COLUMN "col" TEXT
AlterAddColumn(store, t, col) ==
  [store EXCEPT ![t].cols = @ \cup {col}]

RECURSIVE AddMissingColumns_Always(_, _, _, _, _, _, _)
\* variant: an ALTER is issued for every incoming column, known or not
AddMissingColumns_Always(store, t, cols, existingCols, added, issued, failAt) ==
  IF cols = <<>>
  THEN [ok |-> TRUE, store |-> store, existingCols |-> existingCols,
        added |-> added, issued |-> issued]
  ELSE IF failAt = issued + 1
  THEN [ok |-> FALSE, store |-> store, existingCols |-> existingCols,
        added |-> added, issued |-> issued + 1]
  ELSE AddMissingColumns_Always(AlterAddColumn(store, t, Head(cols)), t, Tail(cols),
                                existingCols \cup {Head(cols)}, Append(added, Head(cols)),
                                issued + 1, failAt)

RECURSIVE AddMissingColumns(_, _, _, _, _, _, _)
\* for (const col of sanitizedIncoming) if (!existingCols.has(col)) ALTER ...
\* `issued` counts the statements ensureTableSchema has issued so far and
\* failAt is the ordinal of the statement the store rejects (0: none)
AddMissingColumns(store, t, cols, existingCols, added, issued, failAt) ==
  IF cols = <<>>
  THEN [ok |-> TRUE, store |-> store, existingCols |-> existingCols,
        added |-> added, issued |-> issued]
  ELSE IF Head(cols) \in existingCols
  THEN AddMissingColumns(store, t, Tail(cols), existingCols, added, issued, failAt)
  ELSE IF failAt = issued + 1
  THEN [ok |-> FALSE, store |-> store, existingCols |-> existingCols,
        added |-> added, issued |-> issued + 1]
  ELSE AddMissingColumns(AlterAddColumn(store, t, Head(cols)), t, Tail(cols),
                         existingCols \cup {Head(cols)}, Append(added, Head(cols)),
                         issued + 1, failAt)

\* variant: the set returned is the incoming set, not the table's columns
ensureTableSchema_ReturnsIncoming(store, t, incomingHeaders, failAt) ==
  LET sanitizedIncoming ==
        [i \in DOMAIN incomingHeaders |-> sanitizeHeader(incomingHeaders[i])]
      created == CreateTableIfNotExists(store, t, sanitizedIncoming)
      r == AddMissingColumns(created.store, t, sanitizedIncoming,
                             getExistingColumns(created.store, t), <<>>, 2, failAt)
  IN  IF failAt = 1 \/ ~created.ok
      THEN [ok |-> FALSE, store |-> store, existingCols |-> {},
            added |-> <<>>, issued |-> 1]
      ELSE IF failAt = 2
      THEN [ok |-> FALSE, store |-> created.store, existingCols |-> {},
            added |-> <<>>, issued |-> 2]
      ELSE [r EXCEPT !.existingCols = Range(sanitizedIncoming)]

\* ensureTableSchema(sanitizedTableName, incomingHeaders) run on `store`;
\* the result carries the store it leaves, the returned column set, the
\* columns added by a successful ALTER and the number of statements issued
\* (CREATE, PRAGMA, then one ALTER per missing column)
ensureTableSchema(store, t, incomingHeaders, failAt) ==
  LET sanitizedIncoming ==
        [i \in DOMAIN incomingHeaders |-> sanitizeHeader(incomingHeaders[i])]
      created == CreateTableIfNotExists(store, t, sanitizedIncoming)
  IN  IF failAt = 1 \/ ~created.ok
      THEN [ok |-> FALSE, store |-> store, existingCols |-> {},
            added |-> <<>>, issued |-> 1]
      ELSE IF failAt = 2
      THEN [ok |-> FALSE, store |-> created.store, existingCols |-> {},
            added |-> <<>>, issued |-> 2]
      ELSE AddMissingColumns(created.store, t, sanitizedIncoming,
                             getExistingColumns(created.store, t), <<>>, 2, failAt)

(***************************************************************************)
(* The 'data' handler: empty-value filter and column remapping.            *)
(***************************************************************************)
Whitespace == {" ", "\t"}

RECURSIVE TrimStart(_)
TrimStart(v) ==
  IF v # <<>> /\ Head(v) \in Whitespace THEN TrimStart(Tail(v)) ELSE v

RECURSIVE TrimEnd(_)
TrimEnd(v) ==
  IF v # <<>> /\ v[Len(v)] \in Whitespace THEN TrimEnd(SubSeq(v, 1, Len(v) - 1)) ELSE v

\* String.prototype.trim
Trim(v) == TrimEnd(TrimStart(v))

(***************************************************************************)
(* extractObservationsCSV.  A text is a sequence of characters.            *)
(***************************************************************************)
LowerSeq == <<"a","b","c","d","e","f","g","h","i","j","k","l","m",
              "n","o","p","q","r","s","t","u","v","w","x","y","z">>
UpperSeq == <<"A","B","C","D","E","F","G","H","I","J","K","L","M",
              "N","O","P","Q","R","S","T","U","V","W","X","Y","Z">>

\* the letter a case-insensitive comparison (flag i) compares
ToUpper(c) ==
  IF \E k \in DOMAIN LowerSeq : LowerSeq[k] = c
  THEN UpperSeq[CHOOSE k \in DOMAIN LowerSeq : LowerSeq[k] = c]
  ELSE c

RECURSIVE ReplaceCrLf(_)
\* fullText.replace(/\r\n/g, '\n')
ReplaceCrLf(t) ==
  IF t = <<>> THEN <<>>
  ELSE IF Len(t) >= 2 /\ t[1] = "\r" /\ t[2] = "\n"
  THEN <<"\n">> \o ReplaceCrLf(Tail(Tail(t)))
  ELSE <<Head(t)>> \o ReplaceCrLf(Tail(t))

\* .replace(/\r/g, '\n')
ReplaceCr(t) == [k \in DOMAIN t |-> IF t[k] = "\r" THEN "\n" ELSE t[k]]

NormalizeNewlines(fullText) == ReplaceCr(ReplaceCrLf(fullText))

\* the word of the pattern
ObservationsWord == <<"O","B","S","E","R","V","A","T","I","O","N","S">>

RECURSIVE SkipBlanks(_, _)
\* [ \t]* from position i: the position after the blanks and tabs
SkipBlanks(text, i) ==
  IF i <= Len(text) /\ text[i] \in Whitespace THEN SkipBlanks(text, i + 1) ELSE i

\* "? from position i
SkipQuote(text, i) ==
  IF i <= Len(text) /\ text[i] = "\"" THEN i + 1 ELSE i

\* OBSERVATIONS at position i under flag i
WordAt(text, i) ==
  /\ i + Len(ObservationsWord) - 1 <= Len(text)
  /\ \A k \in DOMAIN ObservationsWord : ToUpper(text[i + k - 1]) = ObservationsWord[k]

\* [ \t]*"?OBSERVATIONS"?[ \t]* from position i: the position after it, 0
\* when it does not match there
MarkerEnd(text, i) ==
  LET w == SkipQuote(text, SkipBlanks(text, i))
  IN  IF WordAt(text, w)
      THEN SkipBlanks(text, SkipQuote(text, w + Len(ObservationsWord)))
      ELSE 0

\* ^ under flag m
LineStart(text, i) == i = 1 \/ text[i - 1] = "\n"

\* /^[ \t]*"?OBSERVATIONS"?[ \t]*\n/im matches at position i
MatchAt(text, i) ==
  /\ LineStart(text, i)
  /\ MarkerEnd(text, i) # 0
  /\ MarkerEnd(text, i) <= Len(text)
  /\ text[MarkerEnd(text, i)] = "\n"

\* the white space String.prototype.trimStart removes from a text
TextWhitespace == Whitespace \cup {"\n", "\r"}

RECURSIVE trimStart(_)
trimStart(t) ==
  IF t # <<>> /\ Head(t) \in TextWhitespace THEN trimStart(Tail(t)) ELSE t

\* what the function returns: null, or a text
Null == [null |-> TRUE, text |-> <<>>]
Text(t) == [null |-> FALSE, text |-> t]

extractObservationsCSV(fullText) ==
  LET text == NormalizeNewlines(fullText)
      m == {i \in DOMAIN text : MatchAt(text, i)}
  IN  IF m = {} THEN Null
      ELSE LET first == CHOOSE i \in m : \A j \in m : i <= j
               start == MarkerEnd(text, first) + 1
               tail == trimStart(SubSeq(text, start, Len(text)))
           IN  IF \A k \in DOMAIN tail : tail[k] # "\n" THEN Null
               ELSE Text(tail)

\* obj[k] = v
Put(obj, k, v) == [x \in DOMAIN obj \cup {k} |-> IF x = k THEN v ELSE obj[x]]

\* delete obj[k]
Delete(obj, k) == [x \in DOMAIN obj \ {k} |-> obj[x]]

EmptyObject == <<>>

RECURSIVE FilterRow(_, _, _)
\* Object.entries(row).reduce(...): keeps the fields whose value is not
\* blank, under the sanitized key; a later field overwrites an earlier one
\* that has the same sanitized key.  row[i] is the cell under headers[i].
FilterRow(hdrs, row, acc) ==
  IF hdrs = <<>> THEN acc
  ELSE FilterRow(Tail(hdrs), Tail(row),
                 IF Trim(Head(row)) # <<>>
                 THEN Put(acc, sanitizeHeader(Head(hdrs)), Head(row))
                 ELSE acc)

\* the decimal digits 0..9
Digits == <<"0", "1", "2", "3", "4", "5", "6", "7", "8", "9">>

\* the keys of the row object the parser emits for the cells of one line:
\* the header of the cell's column and, for a cell past the header list,
\* `_${index}` with the cell's index counted from 0
EntryKeys(hdrs, row) ==
  [i \in DOMAIN row |-> IF i <= Len(hdrs) THEN hdrs[i] ELSE <<"_", Digits[i]>>]

\* remapKey = (a, b) => `${a}>${b}`
remapKey(a, b) == a \o <<">">> \o b

\* variant: the rule fires whether or not the table has the target column
ApplyRule_Ungated(st, rule, cols) ==
  LET inKey == sanitizeHeader(rule[1])
      tgtKey == sanitizeHeader(rule[2])
      k == remapKey(inKey, tgtKey)
      copied == IF tgtKey \notin DOMAIN st.rawEntries
                THEN Put(st.rawEntries, tgtKey, st.rawEntries[inKey])
                ELSE st.rawEntries
  IN  IF inKey \in DOMAIN st.rawEntries
      THEN [rawEntries |-> Delete(copied, inKey),
            remapCounts |-> Put(st.remapCounts, k,
                                IF k \in DOMAIN st.remapCounts
                                THEN st.remapCounts[k] + 1 ELSE 1),
            remapLoggedOnce |-> st.remapLoggedOnce \cup {k},
            notices |-> IF k \in st.remapLoggedOnce THEN st.notices
                        ELSE Append(st.notices, k)]
      ELSE st

\* variant: the value is copied to the target and the incoming field is kept
ApplyRule_KeepsIncoming(st, rule, cols) ==
  LET inKey == sanitizeHeader(rule[1])
      tgtKey == sanitizeHeader(rule[2])
      k == remapKey(inKey, tgtKey)
      copied == IF tgtKey \notin DOMAIN st.rawEntries
                THEN Put(st.rawEntries, tgtKey, st.rawEntries[inKey])
                ELSE st.rawEntries
  IN  IF inKey \in DOMAIN st.rawEntries /\ tgtKey \in cols
      THEN [rawEntries |-> copied,
            remapCounts |-> Put(st.remapCounts, k,
                                IF k \in DOMAIN st.remapCounts
                                THEN st.remapCounts[k] + 1 ELSE 1),
            remapLoggedOnce |-> st.remapLoggedOnce \cup {k},
            notices |-> IF k \in st.remapLoggedOnce THEN st.notices
                        ELSE Append(st.notices, k)]
      ELSE st

\* variant: the notice is logged on every trigger
ApplyRule_AlwaysNotifies(st, rule, cols) ==
  LET inKey == sanitizeHeader(rule[1])
      tgtKey == sanitizeHeader(rule[2])
      k == remapKey(inKey, tgtKey)
      copied == IF tgtKey \notin DOMAIN st.rawEntries
                THEN Put(st.rawEntries, tgtKey, st.rawEntries[inKey])
                ELSE st.rawEntries
  IN  IF inKey \in DOMAIN st.rawEntries /\ tgtKey \in cols
      THEN [rawEntries |-> Delete(copied, inKey),
            remapCounts |-> Put(st.remapCounts, k,
                                IF k \in DOMAIN st.remapCounts
                                THEN st.remapCounts[k] + 1 ELSE 1),
            remapLoggedOnce |-> st.remapLoggedOnce \cup {k},
            notices |-> Append(st.notices, k)]
      ELSE st

\* One iteration of the loop over Object.entries(automigrations), on the
\* remap state [rawEntries, remapCounts, remapLoggedOnce, notices], where
\* notices lists the keys of the one-time notices logged so far
ApplyRule(st, rule, cols) ==
  LET inKey == sanitizeHeader(rule[1])
      tgtKey == sanitizeHeader(rule[2])
      k == remapKey(inKey, tgtKey)
      copied == IF tgtKey \notin DOMAIN st.rawEntries
                THEN Put(st.rawEntries, tgtKey, st.rawEntries[inKey])
                ELSE st.rawEntries
  IN  IF inKey \in DOMAIN st.rawEntries /\ tgtKey \in cols
      THEN [rawEntries |-> Delete(copied, inKey),
            remapCounts |-> Put(st.remapCounts, k,
                                IF k \in DOMAIN st.remapCounts
                                THEN st.remapCounts[k] + 1 ELSE 1),
            remapLoggedOnce |-> st.remapLoggedOnce \cup {k},
            notices |-> IF k \in st.remapLoggedOnce THEN st.notices
                        ELSE Append(st.notices, k)]
      ELSE st

RECURSIVE RemapSteps(_, _, _)
\* the remap states before the first rule and after each rule, in list order
RemapSteps(st, rules, cols) ==
  IF rules = <<>> THEN <<st>>
  ELSE <<st>> \o RemapSteps(ApplyRule(st, Head(rules), cols), Tail(rules), cols)

(***************************************************************************)
(* Inputs: the dataset lists (urls.json5), the rename tables               *)
(* (table-migrations.json5) and the contents a source can have.            *)
(***************************************************************************)
FirstName == <<"D", " ">>
SecondName == <<"D", ",">>

RemoteLocation == <<"h", ":", "/", "/", "u">>
LocalLocation == <<".", "/", "f">>
Locations == {RemoteLocation, LocalLocation}

\* the lists of [name, location] pairs: one or two datasets, whose names
\* differ and sanitize to the same table name
ItemLists ==
  {<<<<FirstName, l>>>> : l \in Locations}
  \cup {<<<<FirstName, l1>>, <<SecondName, l2>>>> : l1 \in Locations, l2 \in Locations}

\* urls.json5 is either an array of pairs or an object from name to location
\* (the arrays are those of URLs, as in the README)
DatasetLists ==
  {[format |-> "object", items |-> it] : it \in ItemLists}
  \cup {[format |-> "array", items |-> it] :
          it \in {l \in ItemLists : \A i \in DOMAIN l : l[i][2] = RemoteLocation}}

\* the lists of one dataset
SingleLists == {l \in DatasetLists : l.format = "object" /\ Len(l.items) = 1}

\* the header lists a source can have; the empty list is the "no headers"
\* case, and "B " and "B$" sanitize to the same column
HeaderLists ==
  { <<>>,
    << <<"A">>, <<"B">> >>,
    << <<"A">>, <<"B", " ">> >>,
    << <<"B", " ">>, <<"B", "$">> >> }

\* the non-blank value a source has in its k-th column
CellOf(k) == IF k = 1 THEN <<"5">> ELSE IF k = 2 THEN <<" ", "7">> ELSE <<"9", " ">>

\* the blank a source has in its k-th column: nothing, or white space
BlankOf(k) == IF k = 1 THEN <<>> ELSE <<" ">>

\* the rows a source with header list h can have: the first n cells hold
\* their column's value and the others are blank
RowsOf(h) ==
  {[k \in DOMAIN h |-> IF k <= n THEN CellOf(k) ELSE BlankOf(k)] : n \in 0..Len(h)}

\* Object.entries(automigrations): (incoming, target) pairs in order
RuleTables ==
  { << <<<<"A">>, <<"B">>>>, <<<<"B">>, <<"B", "_">>>> >>,
    << <<<<"B", " ">>, <<"B", "_">>>>, <<<<"A">>, <<"B", "_">>>>, <<<<"B">>, <<"B", "_">>>> >> }

\* the rename tables with a chain of two rules: RuleTables, and a chain
\* whose second rule renames a column to the spelling the store gives it
\* (as "REF DATE" to "REF_DATE" in the README)
ChainRuleTables ==
  RuleTables
  \cup { << <<<<"A">>, <<"B", " ">>>>, <<<<"B", " ">>, <<"B", "_">>>> >> }

(***************************************************************************)
(* A dataset whose file has a line with one cell more than its header line *)
(* (the parser is not in strict mode and passes such a line on).           *)
(***************************************************************************)
RaggedName == <<"R">>

RaggedLists == {[format |-> "object", items |-> << <<RaggedName, l>> >>] : l \in Locations}

\* the rows of a source with header list h, and the row that has a value in
\* every column and one more cell
RaggedRowsOf(h) ==
  RowsOf(h) \cup {[k \in 1..(Len(h) + 1) |-> CellOf(k)]}

(***************************************************************************)
(* The consumer-price dataset of the documentation: its name, the header   *)
(* line and the single row of its source, and the rename tables it is      *)
(* ingested under (none, or the example of the README).                    *)
(***************************************************************************)
CpiName == <<"C","P","I",","," ","A","l","l"," ","I","t","e","m","s">>

CpiHeaders == << <<"R","E","F"," ","D","A","T","E">>, <<"V","A","L","U","E">> >>

CpiRow == << <<"2","0","2","0","-","0","1">>, <<"1","0","0",".","2">> >>

CpiLists == {[format |-> "object", items |-> << <<CpiName, l>> >>] : l \in Locations}

\* { "REF DATE": "REF_DATE", "Ref_Date": "REF_DATE", "VALUE ($)": "VALUE" }
ReadmeRules ==
  << << <<"R","E","F"," ","D","A","T","E">>, <<"R","E","F","_","D","A","T","E">> >>,
     << <<"R","e","f","_","D","a","t","e">>, <<"R","E","F","_","D","A","T","E">> >>,
     << <<"V","A","L","U","E"," ","(","$",")">>, <<"V","A","L","U","E">> >> >>

CpiRuleTables == { <<>>, ReadmeRules }

(***************************************************************************)
(* State.                                                                  *)
(***************************************************************************)
VARIABLES
  listToGet,        \* require('./urls.json5')
  automigrations,   \* require('./table-migrations.json5'), as its entries
  overWriteMode,    \* the process-wide overwrite flag
  rowLimit,         \* the most rows a source of this run holds
  index,            \* position of the main loop in the entries (from 1)
  pc,               \* where the script is
  name,             \* the loop's `name` for the current entry
  urlOrPath,        \* the loop's `urlOrPath` for the current entry
  headers,          \* the header list of the current source
  existingCols,     \* what ensureTableSchema returned for the current dataset
  remapCounts,      \* per-dataset counters of the data handler
  remapLoggedOnce,  \* per-dataset set of keys already notified
  rowsRead,         \* rows the parser has delivered for the current dataset
  buffered,         \* rows the parser holds while its stream has no 'data' listener
  orphans,          \* 'headers' listeners still running after their promise was rejected
  committed,        \* the store as any other reader sees it
  working,          \* the store as the ingester's connection sees it
  inTx,             \* a transaction is open on the connection
  pending,          \* inserts issued with db.run and not yet executed
  status,           \* per entry of the list: NotStarted, Running, Committed, Aborted
  failure,          \* ghost: per entry of the list, what aborted it ("none" if nothing)
  sqlIssued,        \* ghost: per entry of the list, whether a statement was issued for it
  summary,          \* ghost: the summary lines the 'end' listener of the dataset has logged
  sync,             \* ghost: what the last return of ensureTableSchema did
  lastRemap,        \* ghost: the remap steps of the row just handled (empty after any other step)
  lastRow,          \* ghost: the cells of the row just handled (empty after any other step)
  load,             \* ghost: per table, the rows landed from its latest load
  fullText,         \* the payload handed to extractObservationsCSV
  obs,              \* what extractObservationsCSV returned for it
  raw,              \* the text the caller gives to the CSV parser
  sanitized         \* the result of the sanitizer on `name`

vars == <<listToGet, automigrations, overWriteMode, rowLimit, index, pc, name,
          urlOrPath, headers, existingCols, remapCounts, remapLoggedOnce,
          rowsRead, buffered, orphans, committed, working, inTx, pending, status,
          failure,
          sqlIssued, summary, sync, lastRemap, lastRow, load,
          fullText, obs, raw, sanitized>>

config == <<listToGet, automigrations, overWriteMode, rowLimit>>

dataset == <<headers, existingCols, remapCounts, remapLoggedOnce, rowsRead, buffered>>

ghosts == <<failure, sync, load>>

texts == <<fullText, obs, raw, sanitized>>

program == <<config, dataset, ghosts, orphans, index, name, urlOrPath, committed, working,
             inTx, pending, status, sqlIssued, summary, lastRemap, lastRow>>

entries == ObjectEntries(listToGet)

sanitizedTableName == sanitizeTableName(name)

\* path.resolve(String(urlOrPath)), up to the working directory
localPath == ToJsString(urlOrPath)

\* what the source of the current dataset holds: its header list and
\* the rows it can have
SourceHeaders == IF name = CpiName THEN {CpiHeaders} ELSE HeaderLists

SourceRows(h) ==
  IF name = CpiName THEN {CpiRow}
  ELSE IF name = RaggedName THEN RaggedRowsOf(h)
  ELSE RowsOf(h)

NoSync == [table |-> <<>>, returned |-> FALSE, refused |-> FALSE, colsBefore |-> {},
           syncedBefore |-> {}, existedBefore |-> FALSE, added |-> <<>>, issued |-> 0]

NoValue == JsString(<<>>)

\* no payload is being looked at and nothing has been sanitized
NoTexts ==
  /\ fullText = <<>>
  /\ obs = Null
  /\ raw = <<>>
  /\ sanitized = <<>>

\* the state of the script after its requires and initializeDatabase, on
\* one of `lists` with one of the rename tables `tables`; no source holds
\* more than `limit` rows
Loaded(lists, tables, limit) ==
  /\ listToGet \in lists
  /\ automigrations \in tables
  /\ overWriteMode \in BOOLEAN
  /\ rowLimit = limit
  /\ index = 1
  /\ urlOrPath = NoValue
  /\ headers = <<>>
  /\ existingCols = {}
  /\ remapCounts = EmptyObject
  /\ remapLoggedOnce = {}
  /\ rowsRead = 0
  /\ buffered = 0
  /\ orphans = {}
  /\ committed = EmptyStore
  /\ working = EmptyStore
  /\ inTx = FALSE
  /\ pending = {}
  /\ status = [i \in DOMAIN listToGet.items |-> "NotStarted"]
  /\ failure = [i \in DOMAIN listToGet.items |-> "none"]
  /\ sqlIssued = [i \in DOMAIN listToGet.items |-> FALSE]
  /\ summary = <<>>
  /\ sync = NoSync
  /\ lastRemap = <<>>
  /\ lastRow = <<>>
  /\ load = <<>>

\* the script is about to enter its main loop
Start(lists, tables, limit) ==
  /\ Loaded(lists, tables, limit)
  /\ pc = "loop"
  /\ name = <<>>
  /\ NoTexts

Init == Start(DatasetLists, RuleTables, MaxRows)

\* the consumer-price dataset alone, on an empty store
InitCpi == Start(CpiLists, CpiRuleTables, MaxRows)

\* one dataset whose source may hold one row more
InitRows == Start(SingleLists, RuleTables, MaxRows + 1)

\* one dataset under one of the rename tables with a chain
InitChain == Start(SingleLists, ChainRuleTables, MaxRows)

\* the dataset with the long line alone, on an empty store
InitRagged == Start(RaggedLists, RuleTables, MaxRows)

(***************************************************************************)
(* The payloads given to extractObservationsCSV: up to MaxLines lines of   *)
(* the catalogue, ended by \n or by \r\n, the last line with or without    *)
(* its line end.                                                           *)
(***************************************************************************)
LineCatalogue ==
  { ObservationsWord,
    <<"\"">> \o [k \in DOMAIN ObservationsWord |->
                   LowerSeq[CHOOSE j \in DOMAIN UpperSeq : UpperSeq[j] = ObservationsWord[k]]]
           \o <<"\"">>,
    <<" ">> \o ObservationsWord \o <<"\t">>,
    ObservationsWord \o <<",">>,
    <<"A", ",", "B">>,
    <<"1", ",", "5">>,
    <<>>,
    <<" ">> }

LineEnds == { <<"\n">>, <<"\r", "\n">> }

RECURSIVE JoinLines(_, _, _)
\* the lines, each but the last followed by `nl`, the last by `last`
JoinLines(lines, nl, last) ==
  IF Len(lines) = 1 THEN lines[1] \o last
  ELSE lines[1] \o nl \o JoinLines(Tail(lines), nl, last)

Texts ==
  { JoinLines(ls, nl, last) :
      ls \in UNION {[1..n -> LineCatalogue] : n \in 1..MaxLines},
      nl \in LineEnds,
      last \in {<<>>, <<"\n">>} }

\* the names given to the sanitizer
NameChars == {"a", "Z", "0", "_", " ", ",", "$"}
Names == UNION {[1..n -> NameChars] : n \in 0..MaxLen}

OneList == CHOOSE l \in SingleLists : TRUE
OneTable == CHOOSE t \in RuleTables : TRUE

\* the script holds a payload it has just read:
\* let raw = fs.readFileSync(csvPath, 'utf8') (const data = await response.text())
InitText ==
  /\ Loaded({OneList}, {OneTable}, 0)
  /\ overWriteMode
  /\ pc = "text"
  /\ name = <<>>
  /\ fullText \in Texts
  /\ raw = fullText
  /\ obs = Null
  /\ sanitized = <<>>

\* the script holds a dataset name it is about to sanitize
InitName ==
  /\ Loaded({OneList}, {OneTable}, 0)
  /\ overWriteMode
  /\ pc = "name"
  /\ name \in Names
  /\ fullText = <<>>
  /\ raw = <<>>
  /\ obs = Null
  /\ sanitized = <<>>

(***************************************************************************)
(* How the promise of a dataset settles.                                   *)
(***************************************************************************)
\* resolve(): the loop goes on with the next entry
Resolve(w, c, tx) ==
  /\ status' = [status EXCEPT ![index] = "Committed"]
  /\ index' = index + 1
  /\ pc' = "loop"
  /\ working' = w
  /\ committed' = c
  /\ inTx' = tx
  /\ pending' = pending

\* The process dies of an unhandled rejection: the connection is dropped
\* without a COMMIT, so the open transaction and the inserts that have not
\* been executed are lost.
Crash(c) ==
  /\ pc' = "crashed"
  /\ index' = index
  /\ working' = c
  /\ committed' = c
  /\ inTx' = FALSE
  /\ pending' = {}

\* reject(err) with the store left as (w, c, tx).  The main loop catches the
\* rejection of downloadCsvToSqlite and goes on; it awaits ingestLocalCsv
\* without a catch, so that rejection leaves the async main function.
Reject(cause, w, c, tx) ==
  /\ status' = [status EXCEPT ![index] = "Aborted"]
  /\ failure' = [failure EXCEPT ![index] = cause]
  /\ IF isRemoteUrl(urlOrPath)
     THEN /\ index' = index + 1
          /\ pc' = "loop"
          /\ working' = w
          /\ committed' = c
          /\ inTx' = tx
          /\ pending' = pending
     ELSE Crash(c)

\* the store after a statement that left the connection's view as w
Durable(w) == IF inTx THEN committed ELSE w

(***************************************************************************)
(* The main loop.                                                          *)
(***************************************************************************)
\* const [index, [name, urlOrPath]] of Object.entries(listToGet).entries()
Destructure ==
  /\ pc = "loop"
  /\ index \in DOMAIN entries
  /\ name' = entries[index][1]
  /\ urlOrPath' = entries[index][2]
  /\ headers' = <<>>
  /\ existingCols' = {}
  /\ remapCounts' = EmptyObject
  /\ remapLoggedOnce' = {}
  /\ rowsRead' = 0
  /\ buffered' = 0
  /\ sync' = NoSync
  /\ lastRemap' = <<>>
  /\ lastRow' = <<>>
  /\ summary' = <<>>

\* isRemoteUrl(urlOrPath): downloadCsvToSqlite is called and awaits fetch
StartRemote ==
  /\ Destructure
  /\ isRemoteUrl(urlOrPath')
  /\ pc' = "fetch"
  /\ status' = [status EXCEPT ![index] = "Running"]
  /\ UNCHANGED <<config, texts, orphans, sqlIssued, index, committed, working, inTx, pending,
                 failure, load>>

\* !fs.existsSync(localPath): logged, continue
LocalMissing ==
  /\ Destructure
  /\ ~isRemoteUrl(urlOrPath')
  /\ pc' = "loop"
  /\ index' = index + 1
  /\ status' = [status EXCEPT ![index] = "Aborted"]
  /\ failure' = [failure EXCEPT ![index] = "missing file"]
  /\ UNCHANGED <<config, texts, orphans, sqlIssued, committed, working, inTx, pending, load>>

\* the local file exists: ingestLocalCsv reads it (readFileSync may throw)
\* and pipes it into the parser
StartLocal ==
  /\ Destructure
  /\ ~isRemoteUrl(urlOrPath')
  /\ \E readOk \in BOOLEAN :
       IF readOk
       THEN /\ pc' = "parse"
            /\ status' = [status EXCEPT ![index] = "Running"]
            /\ UNCHANGED <<index, committed, working, inTx, pending, failure>>
       ELSE /\ status' = [status EXCEPT ![index] = "Aborted"]
            /\ failure' = [failure EXCEPT ![index] = "read"]
            /\ Crash(committed)
  /\ UNCHANGED <<config, texts, orphans, sqlIssued, load>>

\* the loop is over: db.close() is issued
LoopDone ==
  /\ pc = "loop"
  /\ index \notin DOMAIN entries
  /\ pc' = "closing"
  /\ lastRemap' = <<>>
  /\ lastRow' = <<>>
  /\ UNCHANGED <<config, texts, orphans, sqlIssued, summary, index, name, urlOrPath, dataset, committed,
                 working, inTx, pending, status, ghosts>>

\* close runs once every statement issued before it has been executed; a
\* transaction still open is rolled back by the store
Close ==
  /\ pc = "closing"
  /\ pending = {}
  /\ pc' = "closed"
  /\ lastRemap' = <<>>
  /\ lastRow' = <<>>
  /\ working' = committed
  /\ inTx' = FALSE
  /\ UNCHANGED <<config, texts, orphans, sqlIssued, summary, index, name, urlOrPath, dataset, committed,
                 pending, status, ghosts>>

(***************************************************************************)
(* downloadCsvToSqlite and ingestLocalCsv.                                 *)
(***************************************************************************)
FetchOutcomes == {"ok", "network error", "status not ok"}

\* variant: the catch block logs the failure and does not return
Fetch_Continues ==
  /\ pc = "fetch"
  /\ lastRemap' = <<>>
  /\ lastRow' = <<>>
  /\ \E outcome \in FetchOutcomes :
       /\ pc' = "parse"
       /\ IF outcome = "ok"
          THEN UNCHANGED <<status, failure>>
          ELSE /\ status' = [status EXCEPT ![index] = "Aborted"]
               /\ failure' = [failure EXCEPT ![index] = "fetch"]
  /\ UNCHANGED <<config, texts, orphans, sqlIssued, summary, index, name, urlOrPath, dataset,
                 committed, working, inTx, pending, sync, load>>

\* await fetch(url); a failure is caught, logged, and the function returns
Fetch ==
  /\ pc = "fetch"
  /\ lastRemap' = <<>>
  /\ lastRow' = <<>>
  /\ \E outcome \in FetchOutcomes :
       IF outcome = "ok"
       THEN /\ pc' = "parse"
            /\ UNCHANGED <<index, status, failure>>
       ELSE /\ pc' = "loop"
            /\ index' = index + 1
            /\ status' = [status EXCEPT ![index] = "Aborted"]
            /\ failure' = [failure EXCEPT ![index] = "fetch"]
  /\ UNCHANGED <<config, texts, orphans, sqlIssued, summary, name, urlOrPath, dataset, committed, working,
                 inTx, pending, sync, load>>

\* An empty payload: the parser emits no 'headers' event, the 'end' listener
\* is never registered and the promise never settles.
NoHeaderEvent ==
  /\ pc = "parse"
  /\ pc' = "stalled"
  /\ lastRemap' = <<>>
  /\ lastRow' = <<>>
  /\ UNCHANGED <<config, texts, orphans, sqlIssued, summary, index, name, urlOrPath, dataset, committed,
                 working, inTx, pending, status, ghosts>>

NewLoad(t) ==
  [ds |-> index, rows |-> <<>>, state |-> "loading", failed |-> 0,
   prior |-> IF t \in DOMAIN load THEN load[t].prior + Len(load[t].rows) ELSE 0]

\* ghost record of a run of ensureTableSchema on table t with result r;
\* `refused` says that the store was made to reject one of its statements
SyncOf(t, r, refused) ==
  [table |-> t, returned |-> r.ok, refused |-> refused,
   colsBefore |-> ColumnsOf(working, t),
   syncedBefore |-> SyncedOf(working, t),
   existedBefore |-> t \in Tables(working),
   added |-> r.added, issued |-> r.issued]

\* the 'headers' listener up to the return of ensureTableSchema
Headers ==
  /\ pc = "parse"
  /\ lastRemap' = <<>>
  /\ lastRow' = <<>>
  /\ \E h \in SourceHeaders :
       /\ headers' = h
       /\ sqlIssued' = [sqlIssued EXCEPT ![index] = Len(h) # 0]
       /\ IF Len(h) = 0
          THEN /\ Reject("no headers", working, committed, inTx)
               /\ UNCHANGED <<existingCols, sync, load>>
          ELSE \E failAt \in 0..(Len(h) + 2) :
                 LET t == sanitizedTableName
                     r == ensureTableSchema(working, t, h, failAt)
                     hs == {sanitizeHeader(h[i]) : i \in DOMAIN h}
                     w == IF r.ok
                          THEN [r.store EXCEPT ![t].synced = @ \cup hs]
                          ELSE r.store
                 IN  IF r.ok
                     THEN /\ existingCols' = r.existingCols
                          /\ working' = w
                          /\ committed' = Durable(w)
                          /\ pc' = IF overWriteMode THEN "begin" ELSE "stream"
                          /\ sync' = SyncOf(t, r, FALSE)
                          /\ load' = Put(load, t, NewLoad(t))
                          /\ UNCHANGED <<index, inTx, pending, status, failure>>
                     ELSE /\ Reject(IF failAt = 0 THEN "duplicate column" ELSE "schema",
                                     w, Durable(w), inTx)
                          /\ sync' = SyncOf(t, r, failAt # 0)
                          /\ UNCHANGED <<existingCols, load>>
  /\ UNCHANGED <<config, texts, orphans, summary, name, urlOrPath, remapCounts, remapLoggedOnce,
                 rowsRead, buffered>>

\* await execSQL('BEGIN IMMEDIATE'): rejected by the store when a
\* transaction is already open on the connection
Begin ==
  /\ pc = "begin"
  /\ lastRemap' = <<>>
  /\ lastRow' = <<>>
  /\ \E storeOk \in BOOLEAN :
       IF storeOk /\ ~inTx
       THEN /\ inTx' = TRUE
            /\ pc' = "clear"
            /\ UNCHANGED <<index, committed, working, pending, status, failure>>
       ELSE Reject("begin", working, committed, inTx)
  /\ UNCHANGED <<config, texts, orphans, sqlIssued, summary, name, urlOrPath, dataset, sync, load>>

\* DELETE FROM "t"
DeleteAll(store, t) == [store EXCEPT ![t].rows = <<>>]

\* variant: a failed DELETE is rethrown without a ROLLBACK
Clear_NoRollback ==
  /\ pc = "clear"
  /\ lastRemap' = <<>>
  /\ lastRow' = <<>>
  /\ \E deleteOk \in BOOLEAN :
       IF deleteOk
       THEN /\ working' = DeleteAll(working, sanitizedTableName)
            /\ pc' = "stream"
            /\ UNCHANGED <<index, committed, inTx, pending, status, failure>>
       ELSE Reject("clear", working, committed, inTx)
  /\ UNCHANGED <<config, texts, orphans, sqlIssued, summary, name, urlOrPath, dataset, sync, load>>

\* await execSQL(`DELETE FROM ...`) and, when it throws, ROLLBACK and rethrow;
\* on success the 'data' and 'end' listeners are registered
Clear ==
  /\ pc = "clear"
  /\ lastRemap' = <<>>
  /\ lastRow' = <<>>
  /\ \E deleteOk \in BOOLEAN, rollbackOk \in BOOLEAN :
       IF deleteOk
       THEN /\ working' = DeleteAll(working, sanitizedTableName)
            /\ pc' = "stream"
            /\ UNCHANGED <<index, committed, inTx, pending, status, failure>>
       ELSE IF rollbackOk
       THEN Reject("clear", committed, committed, FALSE)
       ELSE Reject("clear, rollback refused", working, committed, inTx)
  /\ UNCHANGED <<config, texts, orphans, sqlIssued, summary, name, urlOrPath, dataset, sync, load>>

\* the INSERT statement the 'data' listener issues for the row it is left with
InsertOf(rawEntries, n) ==
  [table |-> sanitizedTableName, row |-> rawEntries, ds |-> index, n |-> n]

\* variant: the listener issues its INSERT also for a row left with no field
Data_InsertsEmptyRow ==
  /\ pc = "stream"
  /\ rowsRead < rowLimit
  /\ \E row \in SourceRows(headers) :
       LET st0 == [rawEntries |-> FilterRow(EntryKeys(headers, row), row, EmptyObject),
                   remapCounts |-> remapCounts,
                   remapLoggedOnce |-> remapLoggedOnce,
                   notices |-> <<>>]
           steps == RemapSteps(st0, automigrations, existingCols)
           fin == steps[Len(steps)]
       IN  /\ remapCounts' = fin.remapCounts
           /\ remapLoggedOnce' = fin.remapLoggedOnce
           /\ lastRemap' = steps
           /\ lastRow' = row
           /\ pending' = pending \cup {InsertOf(fin.rawEntries, rowsRead + 1)}
  /\ rowsRead' = rowsRead + 1
  /\ buffered' = IF buffered > 0 THEN buffered - 1 ELSE 0
  /\ UNCHANGED <<config, texts, orphans, sqlIssued, summary, index, pc, name, urlOrPath, headers, existingCols,
                 committed, working, inTx, status, failure, sync, load>>

\* the 'data' listener on one row: filter, remap, and (unless nothing is
\* left) db.run of the INSERT, which is not awaited
Data ==
  /\ pc = "stream"
  /\ rowsRead < rowLimit
  /\ \E row \in SourceRows(headers) :
       LET st0 == [rawEntries |-> FilterRow(EntryKeys(headers, row), row, EmptyObject),
                   remapCounts |-> remapCounts,
                   remapLoggedOnce |-> remapLoggedOnce,
                   notices |-> <<>>]
           steps == RemapSteps(st0, automigrations, existingCols)
           fin == steps[Len(steps)]
       IN  /\ remapCounts' = fin.remapCounts
           /\ remapLoggedOnce' = fin.remapLoggedOnce
           /\ lastRemap' = steps
           /\ lastRow' = row
           /\ pending' = IF DOMAIN fin.rawEntries = {} THEN pending
                         ELSE pending \cup {InsertOf(fin.rawEntries, rowsRead + 1)}
  /\ rowsRead' = rowsRead + 1
  /\ buffered' = IF buffered > 0 THEN buffered - 1 ELSE 0
  /\ UNCHANGED <<config, texts, orphans, sqlIssued, summary, index, pc, name, urlOrPath, headers, existingCols,
                 committed, working, inTx, status, failure, sync, load>>

\* variant: the inserted row replaces the rows of the table
InsertRow_Replaces(store, t, row) == [store EXCEPT ![t].rows = <<row>>]

\* INSERT INTO "t" (keys) VALUES (values)
InsertRow(store, t, row) == [store EXCEPT ![t].rows = Append(@, row)]

\* the store accepts an INSERT whose table exists and has every named column
Insertable(store, p) ==
  p.table \in Tables(store) /\ DOMAIN p.row \subseteq store[p.table].cols

\* The store executes one of the inserts in flight, in no particular order
\* (the connection is never put in serialized mode); a failure is only
\* logged by the callback.
InsertDone ==
  /\ pc # "crashed"
  /\ lastRemap' = <<>>
  /\ lastRow' = <<>>
  /\ \E p \in pending, storeOk \in BOOLEAN :
       LET ok == storeOk /\ Insertable(working, p)
           w == IF ok THEN InsertRow(working, p.table, p.row) ELSE working
       IN  /\ working' = w
           /\ committed' = Durable(w)
           /\ pending' = pending \ {p}
           /\ load' = IF p.table \notin DOMAIN load THEN load
                      ELSE IF load[p.table].ds # p.ds
                      THEN [load EXCEPT ![p.table].prior = IF ok THEN @ + 1 ELSE @]
                      ELSE IF ok
                      THEN [load EXCEPT ![p.table].rows = Append(@, p.row)]
                      ELSE [load EXCEPT ![p.table].failed = @ + 1]
  /\ UNCHANGED <<config, texts, orphans, sqlIssued, summary, index, pc, name, urlOrPath, dataset, inTx,
                 status, failure, sync>>

RECURSIVE SummaryLines(_, _)
\* for (const [k, count] of Object.entries(remapCounts)) console.log(...):
\* one line [pair, count] per key of `keys`, the keys taken in a fixed order
SummaryLines(counts, keys) ==
  IF keys = {} THEN <<>>
  ELSE LET k == CHOOSE x \in keys : \A y \in keys : Len(x) <= Len(y)
       IN  <<[pair |-> k, count |-> counts[k]]>> \o SummaryLines(counts, keys \ {k})

\* what the 'end' listener logs about the remaps before it resolves: the
\* listener of ingestLocalCsv logs the totals, that of downloadCsvToSqlite
\* has no such loop
EndSummary ==
  IF isRemoteUrl(urlOrPath) THEN <<>>
  ELSE SummaryLines(remapCounts, DOMAIN remapCounts)

\* variant: 'end' is delivered although the stream still holds rows
End_BeforeHeldRows ==
  /\ pc = "stream"
  /\ lastRemap' = <<>>
  /\ lastRow' = <<>>
  /\ IF overWriteMode
     THEN /\ pc' = "commit"
          /\ UNCHANGED <<index, committed, working, inTx, pending, status, load,
                         summary>>
     ELSE /\ Resolve(working, committed, inTx)
          /\ load' = [load EXCEPT ![sanitizedTableName].state = "Committed"]
          /\ summary' = EndSummary
  /\ UNCHANGED <<config, texts, orphans, sqlIssued, name, urlOrPath, dataset, failure, sync>>

\* the 'end' listener: in overwrite mode it issues COMMIT and awaits it,
\* otherwise it resolves at once
End ==
  /\ pc = "stream"
  /\ buffered = 0
  /\ lastRemap' = <<>>
  /\ lastRow' = <<>>
  /\ IF overWriteMode
     THEN /\ pc' = "commit"
          /\ UNCHANGED <<index, committed, working, inTx, pending, status, load,
                         summary>>
     ELSE /\ Resolve(working, committed, inTx)
          /\ load' = [load EXCEPT ![sanitizedTableName].state = "Committed"]
          /\ summary' = EndSummary
  /\ UNCHANGED <<config, texts, orphans, sqlIssued, name, urlOrPath, dataset, failure, sync>>

\* COMMIT is executed.  When it fails the async 'end' listener throws: the
\* rejection is unhandled and the process dies.
CommitDone ==
  /\ pc = "commit"
  /\ lastRemap' = <<>>
  /\ lastRow' = <<>>
  /\ \E storeOk \in BOOLEAN :
       IF storeOk /\ inTx
       THEN /\ Resolve(working, working, FALSE)
            /\ load' = [load EXCEPT ![sanitizedTableName].state = "Committed"]
            /\ summary' = EndSummary
            /\ UNCHANGED failure
       ELSE /\ Crash(committed)
            /\ status' = [status EXCEPT ![index] = "Aborted"]
            /\ failure' = [failure EXCEPT ![index] = "commit"]
            /\ UNCHANGED <<load, summary>>
  /\ UNCHANGED <<config, texts, orphans, sqlIssued, name, urlOrPath, dataset, sync>>

\* the parser's 'error' event: reject(err)
ParserError ==
  /\ pc \in {"parse", "stream"}
  /\ lastRemap' = <<>>
  /\ lastRow' = <<>>
  /\ Reject("parser", working, committed, inTx)
  /\ UNCHANGED <<config, texts, orphans, sqlIssued, summary, name, urlOrPath, dataset, sync, load>>

(***************************************************************************)
(* The parser while the 'headers' listener is suspended in its awaits.     *)
(* The listener is async: it returns to the parser at its first await, and *)
(* the parser goes on with the chunk it is parsing.  Rows it pushes are    *)
(* held by the stream, which has no 'data' listener yet; an 'error' it     *)
(* emits rejects the promise while the listener is still to issue BEGIN    *)
(* and DELETE.                                                             *)
(***************************************************************************)
\* the parser pushes a row before the 'data' listener is registered
ParseAhead ==
  /\ pc \in {"begin", "clear"}
  /\ rowsRead + buffered < rowLimit
  /\ buffered' = buffered + 1
  /\ lastRemap' = <<>>
  /\ lastRow' = <<>>
  /\ UNCHANGED <<config, texts, orphans, sqlIssued, summary, index, pc, name, urlOrPath,
                 headers, existingCols, remapCounts, remapLoggedOnce, rowsRead,
                 committed, working, inTx, pending, status, ghosts>>

\* the 'headers' listener of dataset ds, which goes on after the rejection:
\* `at` is the statement it is about to issue
Orphan(ds, t, at) == [ds |-> ds, table |-> t, at |-> at]

\* the parser's 'error' event while the 'headers' listener awaits: reject(err)
\* lets main go on (or die, for a local source), the listener stays
ParserErrorInSetup ==
  /\ pc \in {"begin", "clear"}
  /\ lastRemap' = <<>>
  /\ lastRow' = <<>>
  /\ Reject("parser", working, committed, inTx)
  /\ orphans' = IF isRemoteUrl(urlOrPath)
                THEN orphans \cup {Orphan(index, sanitizedTableName, pc)}
                ELSE orphans
  /\ UNCHANGED <<config, texts, sqlIssued, summary, name, urlOrPath, dataset, sync, load>>

\* a left-over listener issues BEGIN IMMEDIATE; when the store rejects it
\* the listener's catch calls reject, which has no effect any more
OrphanBegin ==
  /\ pc \notin {"closed", "crashed"}
  /\ lastRemap' = <<>>
  /\ lastRow' = <<>>
  /\ \E o \in orphans, storeOk \in BOOLEAN :
       /\ o.at = "begin"
       /\ IF storeOk /\ ~inTx
          THEN /\ inTx' = TRUE
               /\ orphans' = (orphans \ {o}) \cup {Orphan(o.ds, o.table, "clear")}
          ELSE /\ inTx' = inTx
               /\ orphans' = orphans \ {o}
  /\ UNCHANGED <<config, texts, sqlIssued, summary, index, pc, name, urlOrPath, dataset,
                 committed, working, pending, status, ghosts>>

\* a left-over listener issues its DELETE (and ROLLBACK when it fails), then
\* registers listeners on a stream that delivers nothing any more
OrphanClear ==
  /\ pc \notin {"closed", "crashed"}
  /\ lastRemap' = <<>>
  /\ lastRow' = <<>>
  /\ \E o \in orphans, deleteOk \in BOOLEAN :
       /\ o.at = "clear"
       /\ orphans' = orphans \ {o}
       /\ IF deleteOk /\ inTx
          THEN /\ working' = DeleteAll(working, o.table)
               /\ committed' = committed
               /\ inTx' = inTx
          ELSE /\ working' = committed
               /\ committed' = committed
               /\ inTx' = FALSE
  /\ UNCHANGED <<config, texts, sqlIssued, summary, index, pc, name, urlOrPath, dataset,
                 pending, status, ghosts>>

\* const obs = extractObservationsCSV(raw)
ExtractObservations ==
  /\ pc = "text"
  /\ obs' = extractObservationsCSV(raw)
  /\ pc' = "extracted"
  /\ UNCHANGED <<program, fullText, raw, sanitized>>

\* if (obs) { raw = obs; }: null and the empty string are falsy
UseObservations ==
  /\ pc = "extracted"
  /\ raw' = IF ~obs.null /\ obs.text # <<>> THEN obs.text ELSE raw
  /\ pc' = "payload"
  /\ UNCHANGED <<program, fullText, obs, sanitized>>

\* const sanitizedTableName = sanitizeTableName(name)
Sanitize ==
  /\ pc = "name"
  /\ sanitized' = sanitizeTableName(name)
  /\ pc' = "sanitized"
  /\ UNCHANGED <<program, fullText, obs, raw>>

Next ==
  \/ StartRemote
  \/ LocalMissing
  \/ StartLocal
  \/ LoopDone
  \/ Close
  \/ Fetch
  \/ NoHeaderEvent
  \/ Headers
  \/ Begin
  \/ Clear
  \/ Data
  \/ InsertDone
  \/ End
  \/ CommitDone
  \/ ParserError

Spec == Init /\ [][Next]_vars

SpecRows == InitRows /\ [][Next]_vars

\* the event loop runs a step as long as one is possible: a promise that
\* can settle settles, a statement handed to the connection is executed and
\* a stream that has a listener delivers its events
SpecRowsFair == InitRows /\ [][Next]_vars /\ WF_vars(Next)

\* the steps of the script together with those the parser and a left-over
\* listener take while the 'headers' listener is suspended
NextSetup ==
  \/ Next
  \/ ParseAhead
  \/ ParserErrorInSetup
  \/ OrphanBegin
  \/ OrphanClear

\* the lists whose first dataset is remote, so that main goes on after its
\* promise is rejected
SetupLists ==
  {l \in DatasetLists : l.format = "object" /\ l.items[1][2] = RemoteLocation}

InitSetup == Start(SetupLists, {OneTable}, MaxRows)

SpecSetup == InitSetup /\ [][NextSetup]_vars

SpecCpi == InitCpi /\ [][Next]_vars

SpecRagged == InitRagged /\ [][Next]_vars

SpecChain == InitChain /\ [][Next]_vars

NextText == ExtractObservations \/ UseObservations

\* every payload of Texts through the preamble stripper and its caller
SpecText == InitText /\ [][NextText]_vars

NextName == Sanitize

\* every name of Names through the sanitizer
SpecName == InitName /\ [][NextName]_vars

(***************************************************************************)
(* Vocabulary of the properties.                                           *)
(***************************************************************************)
\* the loop holds the entry at `index` (it has destructured it)
Current == index \in DOMAIN status /\ status[index] # "NotStarted"

\* ensureTableSchema has returned for the current dataset and the dataset
\* has not settled yet
AfterSync == pc \in {"begin", "clear", "stream", "commit"} /\ sync.returned

sanitizedHeaders == {sanitizeHeader(headers[i]) : i \in DOMAIN headers}

\* inKey and tgtKey of the k-th rule of the rename table
InKey(k) == sanitizeHeader(automigrations[k][1])
TgtKey(k) == sanitizeHeader(automigrations[k][2])

\* the 'data' listener has just handled a row; lastRemap[k] is the row
\* before rule k and lastRemap[k + 1] the row after it
RowHandled == lastRemap # <<>>

\* the INSERT issued for the row just handled
IssuedInserts == {p \in pending : p.ds = index /\ p.n = rowsRead}

\* the failures of one dataset the main loop is said to survive
DatasetScopedFailures ==
  {"fetch", "missing file", "no headers", "schema", "clear", "parser"}

(***************************************************************************)
(* C1                                                                      *)
(***************************************************************************)
\* C1: whatever dataset-scoped failure aborts a dataset (remote or local:
\* failed fetch, missing file, no headers, schema change refused, clear
\* refused, parser error), the run does not die of it, and a run that
\* closes the connection has gone through every entry of the list.
C1_FailureNeverEndsTheRun ==
  \A i \in DOMAIN failure :
    failure[i] \in DatasetScopedFailures =>
      /\ pc # "crashed"
      /\ pc = "closed" => \A j \in DOMAIN status : status[j] \in {"Committed", "Aborted"}

(***************************************************************************)
(* C2                                                                      *)
(***************************************************************************)
\* the latest load of table t is Committed and an earlier dataset of the
\* list was loaded into t and Committed too
LoadedTwice(t) ==
  /\ load[t].state = "Committed"
  /\ \E i \in DOMAIN status :
       /\ i < load[t].ds
       /\ status[i] = "Committed"
       /\ sanitizeTableName(entries[i][1]) = t

\* C2: in overwrite mode, once a second load of a table is Committed the
\* table holds exactly the rows that the second load has inserted, and none
\* of the first load.
C2_OverwriteKeepsOnlyLastLoad ==
  overWriteMode =>
    \A t \in DOMAIN load :
      LoadedTwice(t) => t \in Tables(working) /\ working[t].rows = load[t].rows

(***************************************************************************)
(* C3                                                                      *)
(***************************************************************************)
\* C3: for a list given as an array of [name, location] pairs as for one
\* given as an object, the loop's name is the first element of the entry
\* and its location the second; a location that is not a URL is the path
\* of the local file.
C3_EntryIsNameAndLocation ==
  Current =>
    /\ name = listToGet.items[index][1]
    /\ urlOrPath = JsString(listToGet.items[index][2])
    /\ ~IncludesScheme(listToGet.items[index][2]) =>
         localPath = listToGet.items[index][2]

(***************************************************************************)
(* C4                                                                      *)
(***************************************************************************)
\* C4: a rule whose target is not in the column set the synchronizer
\* returned leaves the row as it is, and the INSERT issued for the row
\* carries the incoming field with its value (no other rule of the table
\* has the same incoming column).
C4_RuleNeedsTargetColumn ==
  RowHandled =>
    \A k \in DOMAIN automigrations :
      TgtKey(k) \notin existingCols =>
        /\ lastRemap[k + 1] = lastRemap[k]
        /\ ( /\ InKey(k) \in DOMAIN lastRemap[k].rawEntries
             /\ \A j \in DOMAIN automigrations : j # k => InKey(j) # InKey(k) )
           => /\ IssuedInserts # {}
              /\ \A p \in IssuedInserts :
                   /\ InKey(k) \in DOMAIN p.row
                   /\ p.row[InKey(k)] = lastRemap[k].rawEntries[InKey(k)]

\* a row with a value under A met the rule A -> B while the table has no B
C4_Witness ==
  /\ RowHandled
  /\ \E k \in DOMAIN automigrations :
       /\ TgtKey(k) \notin existingCols
       /\ InKey(k) \in DOMAIN lastRemap[k].rawEntries
       /\ InKey(k) # TgtKey(k)
       /\ \E p \in IssuedInserts : InKey(k) \in DOMAIN p.row

(***************************************************************************)
(* C5                                                                      *)
(***************************************************************************)
\* C5: once the schema of a dataset is synchronized, the target column of
\* every rule whose incoming column is among the dataset's headers exists.
C5_TargetColumnEnsured ==
  AfterSync =>
    \A k \in DOMAIN automigrations :
      InKey(k) \in sanitizedHeaders =>
        /\ TgtKey(k) \in existingCols
        /\ TgtKey(k) \in ColumnsOf(working, sanitizedTableName)

(***************************************************************************)
(* C6                                                                      *)
(***************************************************************************)
\* C6: when the row has a value under A and none under B, and B is in the
\* column set, the rule A -> B leaves the value under B, no field A, and
\* every other field as it was.
C6_RuleMovesValue ==
  RowHandled =>
    \A k \in DOMAIN automigrations :
      LET before == lastRemap[k].rawEntries
          after == lastRemap[k + 1].rawEntries
      IN  ( /\ InKey(k) \in DOMAIN before
            /\ TgtKey(k) \notin DOMAIN before
            /\ TgtKey(k) \in existingCols )
          => /\ TgtKey(k) \in DOMAIN after
             /\ after[TgtKey(k)] = before[InKey(k)]
             /\ InKey(k) \notin DOMAIN after
             /\ DOMAIN after \ {TgtKey(k)} = DOMAIN before \ {InKey(k)}
             /\ \A x \in DOMAIN before \ {InKey(k)} : after[x] = before[x]

\* a rule has moved a value in a row that has another field as well
C6_Witness ==
  /\ RowHandled
  /\ \E k \in DOMAIN automigrations :
       LET before == lastRemap[k].rawEntries
           after == lastRemap[k + 1].rawEntries
       IN  /\ InKey(k) \in DOMAIN before
           /\ TgtKey(k) \notin DOMAIN before
           /\ TgtKey(k) \in existingCols
           /\ DOMAIN before \ {InKey(k)} # {}
           /\ after[TgtKey(k)] = CellOf(1)

(***************************************************************************)
(* C7                                                                      *)
(***************************************************************************)
\* C7: after ensureTableSchema has returned, the table exists, every
\* sanitized incoming header is one of its columns, and the set returned
\* is the table's full column set (the columns it had plus the incoming).
C7_SyncPostcondition ==
  AfterSync =>
    /\ sanitizedTableName \in Tables(working)
    /\ sanitizedHeaders \subseteq ColumnsOf(working, sanitizedTableName)
    /\ existingCols = ColumnsOf(working, sanitizedTableName)
    /\ existingCols = sync.colsBefore \cup sanitizedHeaders

\* the synchronizer has returned on a table that existed, had a column the
\* source does not have, and lacked a column of the source
C7_Witness ==
  /\ AfterSync
  /\ sync.existedBefore
  /\ sync.added # <<>>
  /\ ~(sync.colsBefore \subseteq sanitizedHeaders)

(***************************************************************************)
(* C8                                                                      *)
(***************************************************************************)
\* C8: the columns of a table include every header set it has been
\* synchronized with, and a synchronization drops no column the table had.
C8_ColumnsAccumulate ==
  /\ \A t \in Tables(working) : SyncedOf(working, t) \subseteq ColumnsOf(working, t)
  /\ AfterSync => sync.colsBefore \subseteq ColumnsOf(working, sanitizedTableName)

\* a table synchronized with H1 and then with H2, neither including the other
C8_Witness ==
  /\ AfterSync
  /\ sync.syncedBefore # {}
  /\ ~(sync.syncedBefore \subseteq sanitizedHeaders)
  /\ ~(sanitizedHeaders \subseteq sync.syncedBefore)
  /\ SyncedOf(working, sanitizedTableName) = sync.syncedBefore \cup sanitizedHeaders

(***************************************************************************)
(* C9                                                                      *)
(***************************************************************************)
\* C9: a synchronization with headers the table has already been
\* synchronized with (the same set or a subset) issues CREATE and PRAGMA
\* only, adds no column, and leaves the column set as it was.
C9_ResyncAddsNothing ==
  (AfterSync /\ sanitizedHeaders \subseteq sync.syncedBefore) =>
    /\ sync.added = <<>>
    /\ sync.issued = 2
    /\ ColumnsOf(working, sanitizedTableName) = sync.colsBefore
    /\ existingCols = sync.colsBefore

\* a second synchronization with a proper subset of the earlier headers
C9_Witness ==
  /\ AfterSync
  /\ sanitizedHeaders \subseteq sync.syncedBefore
  /\ sanitizedHeaders # sync.syncedBefore
  /\ sync.issued = 2

(***************************************************************************)
(* C10                                                                     *)
(***************************************************************************)
\* two headers of the current source sanitize to the same column name
HeadersCollide == HasDuplicates([i \in DOMAIN headers |-> sanitizeHeader(headers[i])])

\* ensureTableSchema has run for the current dataset (whose promise may
\* have settled since)
SyncTried == sync.table # <<>>

\* the positions of the non-blank cells of the row just handled that go
\* under column c
CellsUnder(c) ==
  {i \in DOMAIN headers : sanitizeHeader(headers[i]) = c /\ Trim(lastRow[i]) # <<>>}

Last(S) == CHOOSE i \in S : \A j \in S : j <= i

\* C10 (as stated): no dataset is aborted because two of its headers
\* sanitize to the same column name, on a new table as on an existing one.
C10_CollidingHeadersDoNotAbort ==
  \A i \in DOMAIN failure : failure[i] # "duplicate column"

\* C10 (amended): with two headers that sanitize to the same column name,
\* the synchronization fails and creates nothing when the table is new; on
\* a table that exists it succeeds unless the store refuses a statement,
\* and the table has the shared column.  A row then reaches the remap stage
\* with the value of the last non-blank field under the shared column, and
\* the INSERT carries it when no rule has that column as its incoming one.
C10_CollisionNeedsExistingTable ==
  /\ (SyncTried /\ HeadersCollide /\ ~sync.existedBefore) =>
       /\ ~sync.returned
       /\ sync.table \notin Tables(working)
  /\ (SyncTried /\ HeadersCollide /\ sync.existedBefore /\ ~sync.refused) =>
       sync.returned
  /\ (AfterSync /\ HeadersCollide) =>
       sanitizedHeaders \subseteq ColumnsOf(working, sanitizedTableName)
  /\ (RowHandled /\ HeadersCollide) =>
       \A c \in sanitizedHeaders :
         CellsUnder(c) # {} =>
           /\ c \in DOMAIN lastRemap[1].rawEntries
           /\ lastRemap[1].rawEntries[c] = lastRow[Last(CellsUnder(c))]
           /\ (\A k \in DOMAIN automigrations : InKey(k) # c) =>
                /\ IssuedInserts # {}
                /\ \A p \in IssuedInserts :
                     c \in DOMAIN p.row /\ p.row[c] = lastRow[Last(CellsUnder(c))]

\* on a table that existed, a row with two non-blank fields under the
\* shared column has been handled and its INSERT issued
C10_Witness ==
  /\ RowHandled
  /\ HeadersCollide
  /\ sync.existedBefore
  /\ \E c \in sanitizedHeaders :
       /\ Cardinality(CellsUnder(c)) = 2
       /\ \E p \in IssuedInserts : c \in DOMAIN p.row

(***************************************************************************)
(* C11                                                                     *)
(***************************************************************************)
\* the fetch of a remote dataset failed, or the local file is missing
FetchOrReadFailures == {"fetch", "missing file"}

\* C11: for a dataset whose fetch failed (network error, status not ok) or
\* whose local file is missing, no statement is ever issued: no schema
\* synchronization, no insert, no load; the dataset is Aborted and the
\* loop has moved past it.  When it is the first of the list, the store is
\* still empty, with no transaction open, when the loop takes the next one.
C11_FailedFetchIssuesNoSql ==
  \A i \in DOMAIN failure :
    failure[i] \in FetchOrReadFailures =>
      /\ ~sqlIssued[i]
      /\ status[i] = "Aborted"
      /\ index > i
      /\ \A p \in pending : p.ds # i
      /\ \A t \in DOMAIN load : load[t].ds # i
      /\ (i = 1 /\ index = 2 /\ pc = "loop") =>
           /\ working = EmptyStore
           /\ committed = EmptyStore
           /\ ~inTx
           /\ pending = {}

\* the fetch of the first dataset failed and the second one is Committed
C11_Witness ==
  /\ Len(listToGet.items) = 2
  /\ failure[1] = "fetch"
  /\ status[2] = "Committed"
  /\ sqlIssued[2]

(***************************************************************************)
(* C12                                                                     *)
(***************************************************************************)
\* this step is the one in which the clearing DELETE of the current dataset
\* fails (and the ROLLBACK that follows is executed)
ClearFails ==
  /\ index \in DOMAIN failure
  /\ failure[index] = "none"
  /\ failure'[index] = "clear"

\* C12: in overwrite mode, when the clearing DELETE fails the transaction
\* is rolled back (none is open afterwards and the connection sees the
\* committed store again), the committed store is what it was, the dataset
\* is Aborted, and no insert is ever issued or executed for it.
C12_FailedClearRollsBack ==
  /\ [][ClearFails =>
         /\ overWriteMode
         /\ inTx /\ ~inTx'
         /\ committed' = committed
         /\ working' = committed
         /\ pending' \subseteq pending
         /\ status'[index] = "Aborted"]_vars
  /\ [](\A i \in DOMAIN failure :
          failure[i] = "clear" =>
            /\ status[i] = "Aborted"
            /\ \A p \in pending : p.ds # i
            /\ \A t \in DOMAIN load :
                 load[t].ds = i => load[t].rows = <<>> /\ load[t].failed = 0)

\* the DELETE of the second load has failed on a table that holds a
\* committed row of the first load, and the loop has gone on
C12_Witness ==
  /\ Len(listToGet.items) = 2
  /\ failure[2] = "clear"
  /\ pc = "closed"
  /\ \E t \in Tables(committed) : committed[t].rows # <<>>

(***************************************************************************)
(* C13                                                                     *)
(***************************************************************************)
\* the inserts of dataset i that the connection has not executed yet
PendingOf(i) == {p \in pending : p.ds = i}

\* C13: a failing row insert never rolls back nor aborts the dataset: every
\* later row is inserted in the same transaction, which is committed at the
\* end of the stream, so that a dataset one of whose inserts failed is
\* Committed only with every other row already executed and durable.
C13_FailedInsertSkipsOnlyThatRow ==
  \A t \in DOMAIN load :
    (load[t].failed > 0 /\ overWriteMode /\ status[load[t].ds] = "Committed") =>
      /\ failure[load[t].ds] = "none"
      /\ PendingOf(load[t].ds) = {}
      /\ pc # "crashed" => committed[t].rows = load[t].rows

(***************************************************************************)
(* C14                                                                     *)
(***************************************************************************)
\* a line that starts at position i of the text and whose whole content is
\* the marker, whether a line end or the end of the text follows it
MarkerLineAt(text, i) ==
  /\ LineStart(text, i)
  /\ MarkerEnd(text, i) # 0
  /\ \/ MarkerEnd(text, i) = Len(text) + 1
     \/ (MarkerEnd(text, i) <= Len(text) /\ text[MarkerEnd(text, i)] = "\n")

MarkerLines(text) == {i \in DOMAIN text : MarkerLineAt(text, i)}

\* the text strictly after the first marker line, from its first character
\* that is not white space
AfterFirstMarker(text) ==
  LET first == CHOOSE i \in MarkerLines(text) : \A j \in MarkerLines(text) : i <= j
  IN  trimStart(SubSeq(text, MarkerEnd(text, first) + 1, Len(text)))

\* C14: once the caller has applied the preamble stripper, the text it
\* parses is, for a payload with a marker line, the text strictly after the
\* first marker line from its first non-blank line (also when the marker is
\* the last line or a single line follows it), and for a payload without a
\* marker line the original payload, for which no preamble is reported.
C14_PreambleStripped ==
  pc = "payload" =>
    LET text == NormalizeNewlines(fullText)
    IN  IF MarkerLines(text) # {}
        THEN raw = AfterFirstMarker(text)
        ELSE obs = Null /\ raw = fullText

(***************************************************************************)
(* C15                                                                     *)
(***************************************************************************)
\* C15: the sanitized name has the length of the name, holds only
\* characters of [A-Za-z0-9_], keeps every such character of the name at
\* its position and has an underscore at every other position.
C15_SanitizerKeepsShape ==
  pc = "sanitized" =>
    /\ Len(sanitized) = Len(name)
    /\ \A i \in DOMAIN sanitized :
         /\ sanitized[i] \in SafeChar
         /\ name[i] \in SafeChar => sanitized[i] = name[i]
         /\ name[i] \notin SafeChar => sanitized[i] = "_"

\* a name of full length with a letter kept and two other characters replaced
C15_Witness ==
  /\ pc = "sanitized"
  /\ name = <<"a", "$", " ">>
  /\ sanitized = <<"a", "_", "_">>

(***************************************************************************)
(* C16                                                                     *)
(***************************************************************************)
\* every cell of the row is empty or holds white space only
BlankRow(row) == \A k \in DOMAIN row : Trim(row[k]) = <<>>

\* C16: the handling of a row whose cells are all empty or blank issues no
\* insert, reports no error and leaves the outcome of the dataset as it
\* was; the row after it is handled as any row: unless it is blank too, an
\* insert is issued for it.
C16_BlankRowIsSkipped ==
  /\ [][(lastRemap' # <<>> /\ BlankRow(lastRow')) =>
         /\ pending' = pending
         /\ load' = load
         /\ UNCHANGED <<pc, index, status, failure, summary, working, committed, inTx>>]_vars
  /\ []((RowHandled /\ ~BlankRow(lastRow)) => IssuedInserts # {})

\* a blank first row was skipped and the second row has its insert issued
C16_Witness ==
  /\ RowHandled
  /\ rowsRead = 2
  /\ ~BlankRow(lastRow)
  /\ IssuedInserts # {}
  /\ pending = IssuedInserts
  /\ load[sanitizedTableName].rows = <<>>
  /\ load[sanitizedTableName].failed = 0
  /\ load[sanitizedTableName].prior = 0

(***************************************************************************)
(* C17                                                                     *)
(***************************************************************************)
\* C17: when a dataset completes normally, remote or local, its 'end'
\* listener has logged exactly one summary line for each pair whose rule
\* fired on a row of the dataset, with the number of those rows.
C17_SummaryPerFiredRule ==
  \A i \in DOMAIN status :
    (status[i] = "Committed" /\ index = i + 1 /\ pc = "loop") =>
      /\ Len(summary) = Cardinality(DOMAIN remapCounts)
      /\ \A k \in DOMAIN remapCounts :
           \E n \in DOMAIN summary :
             summary[n] = [pair |-> k, count |-> remapCounts[k]]

(***************************************************************************)
(* C18                                                                     *)
(***************************************************************************)
CpiTable == <<"C","P","I","_","_","A","l","l","_","I","t","e","m","s">>

RefDate == <<"R","E","F","_","D","A","T","E">>

Value == <<"V","A","L","U","E">>

\* C18: once the consumer-price dataset, whose source has the header
\* REF DATE,VALUE and the single row 2020-01,100.2, has been ingested into
\* an empty store without any failure, the store holds the relation
\* CPI__All_Items with exactly the columns REF_DATE and VALUE and exactly
\* one row, REF_DATE = 2020-01 and VALUE = 100.2.
C18_CpiScenario ==
  (/\ pc = "closed"
   /\ status = <<"Committed">>
   /\ rowsRead = 1
   /\ load[sanitizedTableName].failed = 0) =>
    /\ Tables(committed) = {CpiTable}
    /\ committed[CpiTable].cols = {RefDate, Value}
    /\ committed[CpiTable].rows =
         << [c \in {RefDate, Value} |-> IF c = RefDate THEN CpiRow[1] ELSE CpiRow[2]] >>

(***************************************************************************)
(* C19                                                                     *)
(***************************************************************************)
\* C19: in non-overwrite mode a table holds as many rows as the earlier
\* ingestions into it and the latest one have inserted together: with N
\* rows inserted first and M second it holds N + M rows, none of an earlier
\* ingestion having been deleted.
C19_RowsAccumulate ==
  ~overWriteMode =>
    \A t \in DOMAIN load :
      /\ t \in Tables(working)
      /\ Len(working[t].rows) = load[t].prior + Len(load[t].rows)
      /\ committed[t].rows = working[t].rows

\* the same table has been ingested twice, a row inserted each time
C19_Witness ==
  /\ ~overWriteMode
  /\ pc = "closed"
  /\ status = <<"Committed", "Committed">>
  /\ \E t \in DOMAIN load :
       /\ load[t].ds = 2
       /\ load[t].prior = 1
       /\ Len(load[t].rows) = 1
       /\ Len(committed[t].rows) = 2

(***************************************************************************)
(* C20                                                                     *)
(***************************************************************************)
\* C20: in overwrite mode the COMMIT of a dataset takes effect only after
\* every insert issued for the dataset has been executed: once the dataset
\* is Committed none of its inserts is still to be executed.
C20_CommitAfterEveryInsert ==
  overWriteMode =>
    \A i \in DOMAIN status : status[i] = "Committed" => PendingOf(i) = {}

(***************************************************************************)
(* C21                                                                     *)
(***************************************************************************)
\* the rows a reader of the store sees in table t change in this step
ReaderSeesChange(t) ==
  /\ t \in Tables(committed)
  /\ t \in Tables(committed')
  /\ committed'[t].rows # committed[t].rows

\* C21: in overwrite mode the clearing DELETE and the inserts of a dataset
\* are atomic for a reader: whenever the rows a reader sees in a relation
\* change, they change to the complete rows of a finished load, that is, the
\* load is Committed and none of the inserts into the relation is still to
\* be executed, so that the reader never sees the cleared relation or a
\* part of a load.
C21_LoadIsAtomicForReaders ==
  [][overWriteMode =>
       \A t \in DOMAIN load :
         ReaderSeesChange(t) =>
           /\ load'[t].state = "Committed"
           /\ status'[load'[t].ds] = "Committed"
           /\ committed'[t].rows = load'[t].rows
           /\ \A p \in pending' : p.table # t]_vars

(***************************************************************************)
(* C22                                                                     *)
(***************************************************************************)
\* the processing of entry i has ended and the loop is about to take the
\* next entry
Ended(i) ==
  /\ status[i] \in {"Committed", "Aborted"}
  /\ index = i + 1
  /\ pc = "loop"

\* C22: whenever the processing of a dataset has ended, Committed or
\* Aborted (by a parser error in the middle of the stream as by anything
\* else, a store that refuses the ROLLBACK itself left aside), no
\* transaction is open on the connection, so that the BEGIN IMMEDIATE of a
\* later dataset is not rejected because of an earlier one.
C22_NoTransactionLeftOpen ==
  \A i \in DOMAIN status :
    (Ended(i) /\ failure[i] # "clear, rollback refused") => ~inTx

(***************************************************************************)
(* C23                                                                     *)
(***************************************************************************)
\* the script is inside the processing of a dataset
Processing == pc \in {"fetch", "parse", "begin", "clear", "stream", "commit"}

\* control is with the loop of main, or past it
WithOrchestrator == pc \in {"loop", "closing", "closed"}

\* C23: the processing of a dataset always comes to an end and gives
\* control back to the loop, whatever the source holds and whatever the
\* database calls answer, and the run eventually closes the connection.
C23_EveryDatasetEndsAndRunCloses ==
  /\ [](Processing => <>WithOrchestrator)
  /\ <>(pc = "closed")

(***************************************************************************)
(* C24                                                                     *)
(***************************************************************************)
\* this step issues a fetch or a statement for entry i: main or one of its
\* listeners acts for the current entry (the connection executing an insert
\* issued earlier is not such a step), or a left-over listener of entry i
\* issues its next statement
IssuesFor(i) ==
  \/ /\ index = i
     /\ Processing
     /\ pc' # pc \/ rowsRead' # rowsRead
  \/ \E o \in orphans : o.ds = i /\ o \notin orphans'

DatasetEnded(i) == status[i] \in {"Committed", "Aborted"}

\* C24: the datasets are processed one at a time in the order of the list:
\* whenever a fetch or a statement is issued for a dataset, every dataset
\* before it has ended, the dataset itself has not ended yet and no
\* dataset after it has started.
C24_OneDatasetAtATime ==
  [][\A i \in DOMAIN status :
       IssuesFor(i) =>
         /\ ~DatasetEnded(i)
         /\ \A j \in DOMAIN status : j < i => DatasetEnded(j)
         /\ \A j \in DOMAIN status : j > i => status[j] = "NotStarted"]_vars

(***************************************************************************)
(* C25                                                                     *)
(***************************************************************************)
\* this step hands a row to the 'data' listener
RowDelivered == rowsRead' = rowsRead + 1

\* C25: a row is handed to the 'data' listener only after schema
\* synchronization of the dataset's table has returned its column set and,
\* in overwrite mode, after BEGIN and the clearing DELETE (the transaction
\* is open and the script is streaming); and the rows the parser read before
\* the listener was registered are not lost: the stream ends and the
\* dataset is Committed only when none of them is still held.
C25_RowsWaitForSetup ==
  /\ [][RowDelivered =>
         /\ pc = "stream"
         /\ status[index] = "Running"
         /\ sync.returned
         /\ sync.table = sanitizedTableName
         /\ sanitizedHeaders \subseteq existingCols
         /\ overWriteMode => inTx]_vars
  /\ []((pc = "commit" \/ \E i \in DOMAIN status : Ended(i) /\ status[i] = "Committed")
          => buffered = 0)

\* in overwrite mode the only row of a source has been handed to the
\* listener with the transaction open, and its insert issued
C25_Witness ==
  /\ overWriteMode
  /\ RowHandled
  /\ rowsRead = 1
  /\ rowLimit = 1
  /\ buffered = 0
  /\ inTx
  /\ IssuedInserts # {}

(***************************************************************************)
(* C26                                                                     *)
(***************************************************************************)
\* C26: what the synchronizer has reported stays: once the run has closed
\* the connection, every relation a synchronization returned for is in the
\* committed store, and the committed relation of the last synchronization
\* has the columns it had before and those reported as added, whether or
\* not the dataset was aborted afterwards (a store that refuses a ROLLBACK
\* left aside).
C26_SyncedSchemaIsDurable ==
  (pc = "closed" /\ \A i \in DOMAIN failure : failure[i] # "clear, rollback refused") =>
    /\ \A t \in DOMAIN load : t \in Tables(committed)
    /\ sync.returned =>
         sync.colsBefore \cup Range(sync.added) \subseteq ColumnsOf(committed, sync.table)

(***************************************************************************)
(* C27                                                                     *)
(***************************************************************************)
\* the key under which the k-th rule is counted and notified
KeyOf(k) == remapKey(InKey(k), TgtKey(k))

RuleKeys == {KeyOf(k) : k \in DOMAIN automigrations}

\* the k-th rule fires on the row whose remap states are `steps`
FiresIn(steps, k) ==
  /\ InKey(k) \in DOMAIN steps[k].rawEntries
  /\ TgtKey(k) \in existingCols

\* remapCounts[key] || 0
CountOf(counts, key) == IF key \in DOMAIN counts THEN counts[key] ELSE 0

\* how many notices of `key` a list of notices holds
NoticesOf(notices, key) == Cardinality({n \in DOMAIN notices : notices[n] = key})

\* C27: for every pair, the handling of a row logs the first-trigger notice
\* once if the pair's rule fires on the row and has not fired on an earlier
\* row of the dataset, and not otherwise, and adds one to the pair's
\* counter if the rule fires on the row and leaves it otherwise; the pairs
\* notified are those that have a counter; and a dataset starts with no
\* counter and no pair notified.
C27_NoticeOnceAndCount ==
  /\ [][RowDelivered =>
         \A key \in RuleKeys :
           LET fired == \E k \in DOMAIN automigrations :
                          KeyOf(k) = key /\ FiresIn(lastRemap', k)
               logged == lastRemap'[Len(lastRemap')].notices
           IN  /\ CountOf(remapCounts', key) =
                    CountOf(remapCounts, key) + (IF fired THEN 1 ELSE 0)
               /\ NoticesOf(logged, key) =
                    (IF fired /\ CountOf(remapCounts, key) = 0 THEN 1 ELSE 0)]_vars
  /\ [](/\ remapLoggedOnce = DOMAIN remapCounts
        /\ DOMAIN remapCounts \subseteq RuleKeys
        /\ (Current /\ rowsRead = 0) => remapCounts = EmptyObject)

\* a rule has fired on the second row as on the first: its counter is 2 and
\* the second row logged no notice
C27_Witness ==
  /\ RowHandled
  /\ rowsRead = 2
  /\ \E k \in DOMAIN automigrations :
       /\ FiresIn(lastRemap, k)
       /\ remapCounts[KeyOf(k)] = 2
       /\ lastRemap[Len(lastRemap)].notices = <<>>

(***************************************************************************)
(* C28                                                                     *)
(***************************************************************************)
\* C28: when a rule A -> B fires on a row that already has a value under
\* B, the row afterwards has that same value under B and no field A (the
\* value that was under A is dropped), every other field being as it was.
C28_ExistingTargetWins ==
  RowHandled =>
    \A k \in DOMAIN automigrations :
      LET before == lastRemap[k].rawEntries
          after == lastRemap[k + 1].rawEntries
      IN  ( /\ FiresIn(lastRemap, k)
            /\ TgtKey(k) \in DOMAIN before )
          => /\ TgtKey(k) \in DOMAIN after
             /\ after[TgtKey(k)] = before[TgtKey(k)]
             /\ InKey(k) \notin DOMAIN after
             /\ \A x \in DOMAIN before \ {InKey(k)} : x \in DOMAIN after /\ after[x] = before[x]

(***************************************************************************)
(* C29                                                                     *)
(***************************************************************************)
\* C29: every value an insert writes is a non-empty string without leading
\* or trailing white space: an insert that is issued, and a row that has
\* landed, holds only trimmed non-blank values.
C29_ValuesAreTrimmed ==
  /\ \A p \in pending :
       \A c \in DOMAIN p.row : p.row[c] # <<>> /\ Trim(p.row[c]) = p.row[c]
  /\ \A t \in Tables(working) :
       \A n \in DOMAIN working[t].rows :
         \A c \in DOMAIN working[t].rows[n] :
           LET v == working[t].rows[n][c] IN v # <<>> /\ Trim(v) = v

(***************************************************************************)
(* C30                                                                     *)
(***************************************************************************)
\* C30: whenever a rule fires on a row, the row afterwards has a value under
\* the rule's target field, also when the incoming and the target name of
\* the rule sanitize to the same identifier.
C30_FiredRuleLeavesTarget ==
  RowHandled =>
    \A k \in DOMAIN automigrations :
      FiresIn(lastRemap, k) => TgtKey(k) \in DOMAIN lastRemap[k + 1].rawEntries

(***************************************************************************)
(* C31                                                                     *)
(***************************************************************************)
\* the columns an INSERT statement names
ColumnsNamed(p) == DOMAIN p.row

\* C31: every column named in an insert issued for the current dataset is a
\* member of the column set ensureTableSchema returned for the dataset: the
\* fields of a row as filtered are sanitized header names, a rule adds its
\* target only if the target is in that set, and so the insert issued for
\* the row names only columns of the set.
C31_InsertNamesSyncedColumns ==
  /\ RowHandled =>
       /\ DOMAIN lastRemap[1].rawEntries \subseteq sanitizedHeaders
       /\ \A k \in DOMAIN automigrations :
            DOMAIN lastRemap[k + 1].rawEntries \subseteq
              DOMAIN lastRemap[k].rawEntries \cup ({TgtKey(k)} \cap existingCols)
  /\ AfterSync => sanitizedHeaders \subseteq existingCols
  /\ \A p \in pending : p.ds = index => ColumnsNamed(p) \subseteq existingCols

(***************************************************************************)
(* C32                                                                     *)
(***************************************************************************)
\* rule k + 1 takes the field that rule k writes
Chained(k) == k + 1 \in DOMAIN automigrations /\ TgtKey(k) = InKey(k + 1)

\* rules k and k + 1 take different fields and write the same one
Merging(k) ==
  /\ k + 1 \in DOMAIN automigrations
  /\ TgtKey(k) = TgtKey(k + 1)
  /\ InKey(k) # InKey(k + 1)

\* C32: the rules act in list order, each on the row the earlier ones left.
\* With a rule A -> B followed by a rule B -> C, B and C in the column set,
\* a row that has only A is left with only C, holding A's value; with a
\* rule A1 -> B followed by a rule A2 -> B, B in the column set, a row that
\* has A1 and A2 and not B is left with A1's value under B and with neither
\* A1 nor A2.
C32_RulesApplyInOrder ==
  RowHandled =>
    \A k \in DOMAIN automigrations :
      LET before == lastRemap[k].rawEntries IN
      /\ ( /\ Chained(k)
           /\ DOMAIN before = {InKey(k)}
           /\ {TgtKey(k), TgtKey(k + 1)} \subseteq existingCols )
         => lastRemap[k + 2].rawEntries = Put(EmptyObject, TgtKey(k + 1), before[InKey(k)])
      /\ ( /\ Merging(k)
           /\ {InKey(k), InKey(k + 1)} \subseteq DOMAIN before
           /\ TgtKey(k) \notin DOMAIN before
           /\ TgtKey(k) \in existingCols )
         => LET after == lastRemap[k + 2].rawEntries
            IN  /\ TgtKey(k) \in DOMAIN after
                /\ after[TgtKey(k)] = before[InKey(k)]
                /\ InKey(k) \notin DOMAIN after
                /\ InKey(k + 1) \notin DOMAIN after

====
